---- MODULE Spec2Model ----
(***************************************************************************)
(* grpc-passthrough: the schema-less protobuf codec (requestSerialize,     *)
(* parseProtobufResponse), the client-key metadata transform and the       *)
(* per-request health-check orchestration, modelled from the TypeScript    *)
(* source.  Bytes are 0..255, strings are sequences of code points, and    *)
(* the 32-bit integers that JavaScript's bitwise operators produce are     *)
(* kept at their width.                                                    *)
(***************************************************************************)
EXTENDS Integers, Sequences, FiniteSets, TLC

VARIABLES
    buffer,     \* the response bytes handed to parseProtobufResponse
    offset,     \* parseProtobufResponse: let offset
    result,     \* parseProtobufResponse: const result
    pc,         \* position of the decoder: "idle" | "loop" | "returned"
    last,       \* what the latest loop iteration did (observation only)
    tick,       \* flips on every iteration of the outer loop, so that an
                \* iteration that leaves offset and result as they were is
                \* still a step of the machine
    service,    \* the request's service string (code points)
    entries,    \* applyClientKeyAuthorization: entries
    now,        \* Date.now() at the call of applyClientKeyAuthorization
    sent,       \* what applyClientKeyAuthorization returned
    authDone,   \* whether applyClientKeyAuthorization has returned
    reqs,       \* the POST /health/check requests: position and what each did
    running     \* the request whose response is being deserialized or whose
                \* Check callback is running (0: none); JavaScript runs one
                \* callback at a time

decoderVars == <<buffer, offset, result, pc, last, tick>>
authVars == <<entries, now, sent, authDone>>
orchVars == <<reqs, running>>
vars == <<buffer, offset, result, pc, last, tick, service, entries, now, sent,
          authDone, reqs, running>>

(***************************************************************************)
(* Bounds of the model.                                                    *)
(***************************************************************************)
MaxChunks == 4
FairChunks == 2
MaxServiceLen == 2
MaxEntries == 3
MaxRequests == 2

(***************************************************************************)
(* 32-bit integers as JavaScript's | and << produce them.  A value is an   *)
(* integer in -2^31 .. 2^31-1.  While a varint loop accumulates it, the    *)
(* value is held as the set of bit positions 0..31 that are set in its     *)
(* two's complement form, so that | is set union.                          *)
(***************************************************************************)
MinInt32 == (-2147483647) - 1

RECURSIVE SumBits(_, _)
SumBits(B, i) ==
    IF i < 0 THEN 0
    ELSE (IF i \in B THEN 2^i ELSE 0) + SumBits(B, i - 1)

\* The number whose two's complement form has exactly the bits B set.
FromBits32(B) ==
    IF 31 \in B THEN MinInt32 + SumBits(B, 30) ELSE SumBits(B, 30)

\* The bits of x << shift, for 0 <= x < 128: the shift count is taken
\* modulo 32 and bits past 31 are lost.
Shl32(x, shift) ==
    {i + (shift % 32) : i \in {j \in 0..6 : (x \div (2^j)) % 2 = 1}} \cap (0..31)

(***************************************************************************)
(* UTF-8.  Buffer.from(str, "utf8") and buf.toString("utf8"): a string is  *)
(* a sequence of code points; a lone surrogate is encoded as U+FFFD, and   *)
(* decoding replaces every ill-formed sequence by U+FFFD (it never         *)
(* throws).                                                                *)
(***************************************************************************)
Replacement == 65533
Utf8Block == 16

Utf8EncodeChar(c) ==
    IF c < 128 THEN <<c>>
    ELSE IF c < 2048 THEN <<192 + (c \div 64), 128 + (c % 64)>>
    ELSE IF c >= 55296 /\ c <= 57343 THEN <<239, 191, 189>>
    ELSE IF c < 65536
         THEN <<224 + (c \div 4096), 128 + ((c \div 64) % 64), 128 + (c % 64)>>
    ELSE <<240 + (c \div 262144), 128 + ((c \div 4096) % 64),
           128 + ((c \div 64) % 64), 128 + (c % 64)>>

RECURSIVE Utf8EncodeRange(_, _, _)
Utf8EncodeRange(s, lo, hi) ==
    IF lo > hi THEN <<>>
    ELSE IF lo = hi THEN Utf8EncodeChar(s[lo])
    ELSE LET mid == (lo + hi) \div 2
         IN  Utf8EncodeRange(s, lo, mid) \o Utf8EncodeRange(s, mid + 1, hi)

\* Buffer.from(s, "utf8")
Utf8Encode(s) == Utf8EncodeRange(s, 1, Len(s))

\* The decoder state machine, run from index i of b until k items (code
\* points or replacement characters) are produced or the bytes end: need
\* continuation bytes are still expected for the code point cp, the next one
\* within lo..hi.  An ill-formed byte yields U+FFFD and is looked at again
\* as the start of a sequence.  The result is the items and the index after
\* them.
Utf8Emit(x, rest) ==
    CHOOSE v \in {[out |-> <<x>> \o r.out, next |-> r.next] : r \in rest} : TRUE

RECURSIVE Utf8DecodeFrom(_, _, _, _, _, _, _)
Utf8DecodeFrom(b, i, need, cp, lo, hi, k) ==
    IF k = 0 THEN [out |-> <<>>, next |-> i]
    ELSE IF i > Len(b)
    THEN [out |-> IF need > 0 THEN <<Replacement>> ELSE <<>>, next |-> i]
    ELSE LET x == b[i] IN
      IF need = 0 THEN
        IF x <= 127
        THEN Utf8Emit(x, {Utf8DecodeFrom(b, i + 1, 0, 0, 128, 191, k - 1)})
        ELSE IF x >= 194 /\ x <= 223
             THEN Utf8DecodeFrom(b, i + 1, 1, x % 32, 128, 191, k)
        ELSE IF x >= 224 /\ x <= 239
             THEN Utf8DecodeFrom(b, i + 1, 2, x % 16,
                                 IF x = 224 THEN 160 ELSE 128,
                                 IF x = 237 THEN 159 ELSE 191, k)
        ELSE IF x >= 240 /\ x <= 244
             THEN Utf8DecodeFrom(b, i + 1, 3, x % 8,
                                 IF x = 240 THEN 144 ELSE 128,
                                 IF x = 244 THEN 143 ELSE 191, k)
        ELSE Utf8Emit(Replacement,
                      {Utf8DecodeFrom(b, i + 1, 0, 0, 128, 191, k - 1)})
      ELSE IF x < lo \/ x > hi
           THEN Utf8Emit(Replacement,
                         {Utf8DecodeFrom(b, i, 0, 0, 128, 191, k - 1)})
      ELSE IF need = 1
           THEN Utf8Emit(cp * 64 + (x % 64),
                         {Utf8DecodeFrom(b, i + 1, 0, 0, 128, 191, k - 1)})
      ELSE Utf8DecodeFrom(b, i + 1, need - 1, cp * 64 + (x % 64), 128, 191, k)

\* The whole of b from index i, Utf8Block items at a time (the blocks only
\* keep the evaluation shallow).
RECURSIVE Utf8DecodeAll(_, _)
Utf8DecodeAll(b, i) ==
    IF i > Len(b) THEN <<>>
    ELSE CHOOSE v \in {r.out \o Utf8DecodeAll(b, r.next) :
                       r \in {Utf8DecodeFrom(b, i, 0, 0, 128, 191, Utf8Block)}} : TRUE

\* data.toString("utf8")
Utf8Decode(b) == Utf8DecodeAll(b, 1)

(***************************************************************************)
(* Buffer.subarray(begin, end): a negative index counts from the end of    *)
(* the buffer, both ends are clamped to 0..length, and an end before the   *)
(* begin gives the empty view.  Indexes here are 0-based as in the source; *)
(* TLA+ sequences are 1-based.                                             *)
(***************************************************************************)
RelativeIndex(idx, len) ==
    IF idx < 0 THEN (IF len + idx < 0 THEN 0 ELSE len + idx)
    ELSE (IF idx > len THEN len ELSE idx)

Subarray(buf, begin, end) ==
    LET b == RelativeIndex(begin, Len(buf))
        e == RelativeIndex(end, Len(buf))
    IN  IF e <= b THEN <<>> ELSE SubSeq(buf, b + 1, e)

(***************************************************************************)
(* HealthServiceDefinition.Check.requestSerialize.  service.length is 0    *)
(* exactly for the empty string; Buffer.from([0x0a, n]) stores n modulo    *)
(* 256.                                                                    *)
(***************************************************************************)
RequestSerialize(svc) ==
    IF Len(svc) = 0 THEN <<>>
    ELSE LET serviceBytes == Utf8Encode(svc)
             header == <<10, Len(serviceBytes) % 256>>
         IN  header \o serviceBytes

(***************************************************************************)
(* Values of the decoded record.                                           *)
(***************************************************************************)
\* JavaScript values: undefined (also a key that is not set), null, numbers,
\* booleans and strings (code points).
Undefined == [t |-> "undefined", n |-> 0, s |-> <<>>]
Null == [t |-> "null", n |-> 0, s |-> <<>>]
BoolVal(b) == [t |-> "boolean", n |-> IF b THEN 1 ELSE 0, s |-> <<>>]
NumberVal(n) == [t |-> "number", n |-> n, s |-> <<>>]
StringVal(s) == [t |-> "string", n |-> 0, s |-> s]

\* const result: Record<string, unknown> = {}.  fields holds the field_N
\* keys, keyed by N.
EmptyResult ==
    [fields |-> <<>>, status |-> Undefined, latency |-> Undefined,
     error_code |-> Undefined, error_message |-> Undefined]

\* result[`field_${fieldNumber}`] = v
SetField(fields, fieldNumber, v) ==
    [k \in (DOMAIN fields) \cup {fieldNumber} |->
        IF k = fieldNumber THEN v ELSE fields[k]]

(***************************************************************************)
(* The varint loops of parseProtobufResponse.  off is the 0-based cursor.  *)
(* complete tells whether the loop ended on a byte with the high bit clear *)
(* (and not because the buffer ended).                                     *)
(***************************************************************************)
RECURSIVE VarintLoop(_, _, _, _)
VarintLoop(buf, off, bits, shift) ==
    IF off < Len(buf)
    THEN IF buf[off + 1] < 128
         THEN [value |-> FromBits32(bits \cup Shl32(buf[off + 1] % 128, shift)),
               offset |-> off + 1, complete |-> TRUE]
         ELSE VarintLoop(buf, off + 1,
                         bits \cup Shl32(buf[off + 1] % 128, shift), shift + 7)
    ELSE [value |-> FromBits32(bits), offset |-> off, complete |-> FALSE]

\* case 0: let value = 0; let shift = 0; while ...
DecodeVarint(buf, off) == VarintLoop(buf, off, {}, 0)

\* case 2: let length = 0; let shift = 0; while ...
DecodeLength(buf, off) == VarintLoop(buf, off, {}, 0)

NoField ==
    [kind |-> "none", at |-> 0, fieldNumber |-> 0, p |-> 0, value |-> 0,
     L |-> 0, data |-> <<>>, complete |-> TRUE, reads |-> {}]

\* case 0 of the switch
VarintCase(buf, off, res, fieldNumber) ==
    LET r == DecodeVarint(buf, off + 1)
    IN  [offset |-> r.offset,
         result |-> [res EXCEPT
                       !.fields = SetField(@, fieldNumber, NumberVal(r.value)),
                       !.status = IF fieldNumber = 1 THEN NumberVal(r.value) ELSE @],
         last |-> [kind |-> "varint", at |-> off, fieldNumber |-> fieldNumber,
                   p |-> r.offset, value |-> r.value, L |-> 0, data |-> <<>>,
                   complete |-> r.complete, reads |-> off .. (r.offset - 1)]]

\* case 2 of the switch.  toString("utf8") does not throw, so the catch
\* branch that would record the raw bytes is never taken.
LengthDelimitedCase(buf, off, res, fieldNumber) ==
    LET r == DecodeLength(buf, off + 1)
        data == Subarray(buf, r.offset, r.offset + r.value)
        str == StringVal(Utf8Decode(data))
    IN  [offset |-> r.offset + r.value,
         result |-> [res EXCEPT
                       !.fields = SetField(@, fieldNumber, str),
                       !.latency = IF fieldNumber = 2 THEN str ELSE @,
                       !.error_code = IF fieldNumber = 4 THEN str ELSE @,
                       !.error_message = IF fieldNumber = 5 THEN str ELSE @],
         last |-> [kind |-> "bytes", at |-> off, fieldNumber |-> fieldNumber,
                   p |-> r.offset, value |-> r.value, L |-> r.value,
                   data |-> data,
                   complete |-> r.complete, reads |-> off .. (r.offset - 1)]]

\* A default branch that skips the tag byte and goes on decoding.
UnknownWireTypeSkipsTag(buf, off, res, fieldNumber) ==
    [offset |-> off + 1,
     result |-> res,
     last |-> [kind |-> "unknown", at |-> off, fieldNumber |-> fieldNumber,
               p |-> off + 1, value |-> 0, L |-> 0, data |-> <<>>,
               complete |-> TRUE, reads |-> {off}]]

\* default of the switch: offset = buffer.length
UnknownWireTypeCase(buf, off, res, fieldNumber) ==
    [offset |-> Len(buf),
     result |-> res,
     last |-> [kind |-> "unknown", at |-> off, fieldNumber |-> fieldNumber,
               p |-> off + 1, value |-> 0, L |-> 0, data |-> <<>>,
               complete |-> TRUE, reads |-> {off}]]

\* One iteration of the while loop whose tag is defined (0 <= off < length).
LoopBody(buf, off, res) ==
    LET tag == buf[off + 1]
        fieldNumber == tag \div 8
        wireType == tag % 8
    IN  IF wireType = 0 THEN VarintCase(buf, off, res, fieldNumber)
        ELSE IF wireType = 2 THEN LengthDelimitedCase(buf, off, res, fieldNumber)
        ELSE UnknownWireTypeCase(buf, off, res, fieldNumber)

(***************************************************************************)
(* parseProtobufResponse as a state machine: one action per iteration of   *)
(* the outer loop, one for each way the loop is left.                      *)
(***************************************************************************)
\* while (offset < buffer.length) { tag defined; switch ... }
DecodeField ==
    /\ pc = "loop"
    /\ offset >= 0 /\ offset < Len(buffer)
    /\ \E n \in {LoopBody(buffer, offset, result)} :
           /\ offset' = n.offset
           /\ result' = n.result
           /\ last' = n.last
    /\ tick' = 1 - tick
    /\ UNCHANGED <<buffer, pc, service, authVars, orchVars>>

\* const tag = buffer[offset]; if (tag === undefined) break;  A negative
\* offset passes the loop test and reads an index that is not in the buffer.
DecodeBreak ==
    /\ pc = "loop"
    /\ offset < 0
    /\ pc' = "returned"
    /\ last' = [NoField EXCEPT !.kind = "undefined", !.at = offset,
                               !.reads = {offset}]
    /\ UNCHANGED <<buffer, offset, result, tick, service, authVars, orchVars>>

\* the loop test fails: return result
DecodeReturn ==
    /\ pc = "loop"
    /\ offset >= Len(buffer)
    /\ pc' = "returned"
    /\ UNCHANGED <<buffer, offset, result, last, tick, service, authVars, orchVars>>

\* The metadata transform at rest.
AuthIdle ==
    /\ entries = <<>>
    /\ now = 0
    /\ sent = <<>>
    /\ authDone = FALSE

\* No request.
OrchIdle ==
    /\ reqs = <<>>
    /\ running = 0

(***************************************************************************)
(* Response buffers: every concatenation of at most MaxChunks chunks.  The *)
(* chunks are tags of both supported wire types and of an unsupported one, *)
(* short and long varints (five bytes with bit 31 set, ten bytes), and     *)
(* payload bytes.                                                          *)
(***************************************************************************)
Chunks ==
    { <<8>>, <<10>>, <<42>>, <<11>>,
      <<1>>, <<2>>, <<130>>,
      <<249, 255, 255, 255, 15>>,
      <<250, 255, 255, 255, 15>>,
      <<255, 255, 255, 255, 255, 255, 255, 255, 255, 1>>,
      <<79, 75>> }

RECURSIVE Flatten(_)
Flatten(cs) == IF cs = <<>> THEN <<>> ELSE Head(cs) \o Flatten(Tail(cs))

Buffers(max) == {Flatten(cs) : cs \in UNION {[1..n -> Chunks] : n \in 0..max}}

DecoderStart(buf) ==
    /\ buffer = buf
    /\ offset = 0
    /\ result = EmptyResult
    /\ pc = "loop"
    /\ last = NoField
    /\ tick = 0

Init ==
    /\ \E buf \in Buffers(MaxChunks) : DecoderStart(buf)
    /\ service = <<>>
    /\ AuthIdle
    /\ OrchIdle

Next == DecodeField \/ DecodeBreak \/ DecodeReturn

Spec == Init /\ [][Next]_vars

(***************************************************************************)
(* The codec on its own: a service string is serialized by                 *)
(* requestSerialize and the bytes are parsed by parseProtobufResponse.     *)
(* Service strings are all strings of at most MaxServiceLen characters     *)
(* over ServiceChars (O, K, *, e-acute, the euro sign) and a few long      *)
(* ones around the 127/128-byte boundary of a one-byte length.             *)
(***************************************************************************)
ServiceChars == {79, 75, 42, 233, 8364}

Repeat(c, n) == [i \in 1..n |-> c]

LongServices ==
    { Repeat(97, 127), Repeat(97, 128), Repeat(42, 128), Repeat(42, 300),
      <<233, 233>> \o Repeat(97, 124) }

Services ==
    UNION {[1..n -> ServiceChars] : n \in 0..MaxServiceLen} \cup LongServices

Serialize ==
    /\ pc = "idle"
    /\ buffer' = RequestSerialize(service)
    /\ pc' = "loop"
    /\ UNCHANGED <<offset, result, last, tick, service, authVars, orchVars>>

CodecInit ==
    /\ service \in Services
    /\ buffer = <<>>
    /\ offset = 0
    /\ result = EmptyResult
    /\ pc = "idle"
    /\ last = NoField
    /\ tick = 0
    /\ AuthIdle
    /\ OrchIdle

CodecNext == Serialize \/ DecodeField \/ DecodeBreak \/ DecodeReturn

SpecCodec == CodecInit /\ [][CodecNext]_vars

\* The loop is a single thread of control that runs until it returns.
FairInit ==
    /\ \E buf \in Buffers(FairChunks) : DecoderStart(buf)
    /\ service = <<>>
    /\ AuthIdle
    /\ OrchIdle

FairSpec == FairInit /\ [][Next]_vars /\ WF_vars(Next)


(***************************************************************************)
(* applyClientKeyAuthorization.  Keys and string values are sequences of   *)
(* character codes.                                                        *)
(***************************************************************************)
\* "client-key", "authorization", "Authorization", "TOTP "
ClientKeyName == <<99, 108, 105, 101, 110, 116, 45, 107, 101, 121>>
AuthorizationName == <<97, 117, 116, 104, 111, 114, 105, 122, 97, 116, 105, 111, 110>>
AuthorizationHeader == <<65, 117, 116, 104, 111, 114, 105, 122, 97, 116, 105, 111, 110>>
TotpPrefix == <<84, 79, 84, 80, 32>>

\* key.toLowerCase(), for keys of ASCII characters
ToLowerCase(str) ==
    [i \in 1..Len(str) |-> IF str[i] >= 65 /\ str[i] <= 90 THEN str[i] + 32 ELSE str[i]]

\* String(n) for an integer n
RECURSIVE Digits(_)
Digits(n) == IF n < 10 THEN <<48 + n>> ELSE Digits(n \div 10) \o <<48 + (n % 10)>>

NumberToString(n) == IF n < 0 THEN <<45>> \o Digits(0 - n) ELSE Digits(n)

\* String(value)
ToJsString(v) ==
    IF v.t = "string" THEN v.s
    ELSE IF v.t = "number" THEN NumberToString(v.n)
    ELSE IF v.t = "boolean"
         THEN (IF v.n = 1 THEN <<116, 114, 117, 101>> ELSE <<102, 97, 108, 115, 101>>)
    ELSE IF v.t = "null" THEN <<110, 117, 108, 108>>
    ELSE <<117, 110, 100, 101, 102, 105, 110, 101, 100>>

\* createHmac("sha256", key).update(message).digest("hex").  The digest is
\* not computed: it is an opaque text that determines, and is determined
\* by, the key and the message (the marks -1 and -2 are no characters).
HmacSha256Hex(key, message) == <<-1>> \o key \o <<-2>> \o message

\* entries.find(...): the index of the first entry with the key client-key,
\* 0 when there is none
FindClientEntry(es) ==
    LET hits == {i \in 1..Len(es) : ToLowerCase(es[i].key) = ClientKeyName}
    IN  IF hits = {} THEN 0 ELSE CHOOSE i \in hits : \A j \in hits : i <= j

\* A filter that compares the key as given with "authorization".
KeepEntryCaseSensitive(entry) ==
    /\ ToLowerCase(entry.key) # ClientKeyName
    /\ entry.key # AuthorizationName

\* The predicate of entries.filter(...)
KeepEntry(entry) ==
    /\ ToLowerCase(entry.key) # ClientKeyName
    /\ ToLowerCase(entry.key) # AuthorizationName

ApplyClientKeyAuthorization(es, nowMs) ==
    LET found == FindClientEntry(es)
    IN  IF found = 0 THEN es
        ELSE LET secretKey == ToJsString(es[found].value)
                 seconds == nowMs \div 1000
                 rounded == seconds - (seconds % 30)
                 signature == HmacSha256Hex(secretKey, NumberToString(rounded))
                 filtered == SelectSeq(es, KeepEntry)
             IN  Append(filtered, [key |-> AuthorizationHeader,
                                   value |-> StringVal(TotpPrefix \o signature)])

(***************************************************************************)
(* The transform on its own: every list of at most MaxEntries entries      *)
(* drawn from MetadataItems, at the times of Clock (milliseconds).         *)
(***************************************************************************)
MetadataItems ==
    { [key |-> ClientKeyName, value |-> StringVal(<<115, 51, 99, 114, 51, 116>>)],
      [key |-> <<67, 108, 105, 101, 110, 116, 45, 75, 101, 121>>,
       value |-> NumberVal(42)],
      [key |-> <<67, 76, 73, 69, 78, 84, 45, 75, 69, 89>>, value |-> BoolVal(TRUE)],
      [key |-> AuthorizationHeader,
       value |-> StringVal(<<66, 101, 97, 114, 101, 114, 32, 111, 108, 100>>)],
      [key |-> AuthorizationName, value |-> StringVal(<<120>>)],
      [key |-> <<120, 45, 105, 100>>, value |-> NumberVal(7)],
      [key |-> <<88, 45, 73, 100>>, value |-> StringVal(<<55>>)] }

Clock == {0, 29999, 30000, 59999, 1700000045}

ApplyAuth ==
    /\ ~authDone
    /\ sent' = ApplyClientKeyAuthorization(entries, now)
    /\ authDone' = TRUE
    /\ UNCHANGED <<decoderVars, service, entries, now, orchVars>>

AuthInit ==
    /\ entries \in UNION {[1..n -> MetadataItems] : n \in 0..MaxEntries}
    /\ now \in Clock
    /\ sent = <<>>
    /\ authDone = FALSE
    /\ buffer = <<>>
    /\ offset = 0
    /\ result = EmptyResult
    /\ pc = "idle"
    /\ last = NoField
    /\ tick = 0
    /\ service = <<>>
    /\ OrchIdle

AuthNext == ApplyAuth

SpecAuth == AuthInit /\ [][AuthNext]_vars


(***************************************************************************)
(* The POST /health/check handler: buildGrpcMetadata, performHealthCheck,  *)
(* the Check callback and the HTTP response.                               *)
(***************************************************************************)
\* !v
Falsy(v) ==
    \/ v.t \in {"undefined", "null"}
    \/ v.t = "string" /\ v.s = <<>>
    \/ v.t \in {"number", "boolean"} /\ v.n = 0

\* a ?? b
Nullish(a, b) == IF a.t \in {"undefined", "null"} THEN b ELSE a

\* normalizeMetadata.  md is the payload's metadata: whether it is an array,
\* and its items; an item is an object or not, with a key and a value.
NormalizeKeeps(entry) ==
    /\ entry.obj
    /\ entry.key.t = "string"
    /\ entry.value.t # "undefined"

NormalizeItem(entry) == [key |-> entry.key.s, value |-> entry.value]

NormalizeMetadata(md) ==
    IF ~md.isArray THEN <<>>
    ELSE LET kept == SelectSeq(md.items, NormalizeKeeps)
         IN  [i \in 1..Len(kept) |-> NormalizeItem(kept[i])]

\* buildGrpcMetadata: sent
BuildGrpcMetadata(input, nowMs) ==
    ApplyClientKeyAuthorization(NormalizeMetadata(input.metadata), nowMs)

\* performHealthCheck: const target = input.target ?? input.host
TargetOf(input) == Nullish(input.target, input.host)

\* A validation that forgets the empty string.
TargetRejectedUnlessString(target) == target.t # "string"

\* performHealthCheck: if (!target || typeof target !== "string") throw
TargetRejected(target) == Falsy(target) \/ target.t # "string"

\* statusToString
StatusToString(status) ==
    IF status = NumberVal(1) \/ status = StringVal(<<83, 69, 82, 86, 73, 78, 71>>)
    THEN "SERVING"
    ELSE IF status = NumberVal(2)
            \/ status = StringVal(<<78, 79, 84, 95, 83, 69, 82, 86, 73, 78, 71>>)
    THEN "NOT_SERVING"
    ELSE IF status = NumberVal(3)
            \/ status = StringVal(<<83, 69, 82, 86, 73, 67, 69, 95, 85, 78, 75, 78,
                                    79, 87, 78>>)
    THEN "SERVICE_UNKNOWN"
    ELSE "UNKNOWN"

\* An isServing that knows the number only.
IsServingNumberOnly(status) == status = NumberVal(1)

\* isServing
IsServing(status) ==
    status = StringVal(<<83, 69, 82, 86, 73, 78, 71>>) \/ status = NumberVal(1)

\* details.includes(part)
Includes(str, part) ==
    \E i \in 0..(Len(str) - Len(part)) : SubSeq(str, i + 1, i + Len(part)) = part

\* "Response message parsing error"
ParsingErrorText ==
    <<82, 101, 115, 112, 111, 110, 115, 101, 32, 109, 101, 115, 115, 97, 103, 101,
      32, 112, 97, 114, 115, 105, 110, 103, 32, 101, 114, 114, 111, 114>>

\* An isAuthError that takes every code 13 for a rejection.
IsAuthErrorAnyInternal(err) == err.code \in {NumberVal(16), NumberVal(7), NumberVal(13)}

\* The catch block: isAuthError.  An error that was thrown locally has
\* neither code nor details.
IsAuthError(err) ==
    \/ err.code = NumberVal(16)
    \/ err.code = NumberVal(7)
    \/ /\ err.code = NumberVal(13)
       /\ err.details.t = "string"
       /\ Includes(err.details.s, ParsingErrorText)

\* serviceError?.details?.includes(...) is reached for code 13 only and calls
\* includes on whatever details is, unless it is undefined or null.
IsAuthErrorRaises(err) ==
    /\ err.code = NumberVal(13)
    /\ err.details.t \notin {"undefined", "null", "string"}

\* const httpStatus = isAuthError ? 401 : 502
CatchStatus(err) == IF IsAuthError(err) THEN 401 ELSE 502

\* jsonResponse(result.serving ? 200 : 503, ...)
ResultStatus(serving) == IF serving THEN 200 ELSE 503

NoError == [kind |-> "none", code |-> Undefined, details |-> Undefined]
LocalError == [kind |-> "thrown", code |-> Undefined, details |-> Undefined]
ServiceError(code, details) == [kind |-> "service", code |-> code, details |-> details]

NoPayload ==
    [isNull |-> FALSE, target |-> Undefined, host |-> Undefined,
     service |-> Undefined, metadata |-> [isArray |-> FALSE, items |-> <<>>]]

\* metadataSent of the failure body: undefined until buildGrpcMetadata returned.
MetadataSent(sentSet, items) ==
    IF sentSet THEN [defined |-> TRUE, items |-> items]
    ELSE [defined |-> FALSE, items |-> <<>>]

NoBody ==
    [code |-> Undefined, details |-> Undefined,
     metadataSent |-> MetadataSent(FALSE, <<>>)]

\* The catch block: code, details and metadataSent of the JSON body.
FailureBody(err, sentSet, items) ==
    [code |-> err.code, details |-> err.details,
     metadataSent |-> MetadataSent(sentSet, items)]

NewRequest ==
    [pc |-> "start", payload |-> NoPayload, sentSet |-> FALSE, sent |-> <<>>,
     requestBytes |-> <<>>, clients |-> 0, checks |-> 0, closes |-> 0,
     resolves |-> 0, rejects |-> 0, err |-> NoError, response |-> EmptyResult,
     rawStatus |-> Undefined, status |-> "", serving |-> FALSE, http |-> 0,
     body |-> NoBody]

\* The decoder between two responses.
DecoderIdle ==
    /\ buffer = <<>>
    /\ offset = 0
    /\ result = EmptyResult
    /\ pc = "idle"
    /\ last = NoField
    /\ tick = 0

(***************************************************************************)
(* Payloads, transport errors and response buffers of the handler.         *)
(***************************************************************************)
HostPort == StringVal(<<104, 58, 49>>)

Payloads ==
    { [NoPayload EXCEPT !.isNull = TRUE],
      NoPayload,
      [NoPayload EXCEPT !.target = StringVal(<<>>)],
      [NoPayload EXCEPT !.target = StringVal(<<>>), !.host = HostPort],
      [NoPayload EXCEPT !.target = NumberVal(5)],
      [NoPayload EXCEPT !.host = BoolVal(TRUE)],
      [NoPayload EXCEPT !.target = Null, !.host = HostPort],
      [NoPayload EXCEPT
          !.target = HostPort,
          !.service = StringVal(<<79, 75>>),
          !.metadata =
             [isArray |-> TRUE,
              items |-> << [obj |-> TRUE, key |-> StringVal(ClientKeyName),
                            value |-> NumberVal(42)],
                           [obj |-> FALSE, key |-> Undefined, value |-> Undefined],
                           [obj |-> TRUE, key |-> NumberVal(1),
                            value |-> StringVal(<<120>>)],
                           [obj |-> TRUE, key |-> StringVal(<<120, 45, 105, 100>>),
                            value |-> Undefined],
                           [obj |-> TRUE, key |-> StringVal(<<120, 45, 105, 100>>),
                            value |-> BoolVal(FALSE)] >>]] }

\* Date.now() at the requests: two sides of a 30 second step.
HandlerClock == {29999, 30000}

TransportErrors ==
    { ServiceError(NumberVal(14), StringVal(<<100, 111, 119, 110>>)),
      ServiceError(NumberVal(16), StringVal(<<110, 111>>)),
      ServiceError(NumberVal(7), Undefined),
      ServiceError(NumberVal(13), StringVal(ParsingErrorText \o <<58, 32, 120>>)),
      ServiceError(NumberVal(13), Undefined),
      ServiceError(Undefined, Undefined) }

ResponseBuffers ==
    { <<>>, <<8, 1>>, <<8, 2>>, <<8, 3>>, <<8, 4>>, <<8, 1, 11>>,
      <<2, 249, 255, 255, 255, 15>>, <<10, 250, 255, 255, 255, 15>> }

\* fetch, POST /health/check, up to the await: the payload has been parsed.
\* A payload that is null makes buildGrpcMetadata throw; an unusable target
\* makes performHealthCheck throw; both are caught and answered at once.
\* Otherwise the client is constructed and Check is called.
HandleRequest(r) ==
    /\ running = 0
    /\ reqs[r].pc = "start"
    /\ \E input \in Payloads, nowMs \in HandlerClock :
         reqs' = [reqs EXCEPT ![r] =
            IF input.isNull
            THEN [@ EXCEPT !.pc = "failed", !.payload = input,
                           !.err = LocalError, !.http = CatchStatus(LocalError),
                           !.body = FailureBody(LocalError, FALSE, <<>>)]
            ELSE IF TargetRejected(TargetOf(input))
            THEN [@ EXCEPT !.pc = "failed", !.payload = input,
                           !.sentSet = TRUE,
                           !.sent = BuildGrpcMetadata(input, nowMs),
                           !.err = LocalError, !.http = CatchStatus(LocalError),
                           !.body = FailureBody(LocalError, TRUE,
                                                BuildGrpcMetadata(input, nowMs))]
            ELSE [@ EXCEPT !.pc = "dispatched", !.payload = input,
                           !.sentSet = TRUE,
                           !.sent = BuildGrpcMetadata(input, nowMs),
                           !.clients = @ + 1,
                           !.checks = @ + 1,
                           !.requestBytes =
                               RequestSerialize(Nullish(input.service,
                                                        StringVal(<<>>)).s)]]
    /\ UNCHANGED <<decoderVars, service, authVars, running>>

\* The call fails: the callback is entered with err.
DeliverError(r) ==
    /\ running = 0
    /\ reqs[r].pc = "dispatched"
    /\ \E e \in TransportErrors :
         reqs' = [reqs EXCEPT ![r].pc = "callback", ![r].err = e]
    /\ running' = r
    /\ UNCHANGED <<decoderVars, service, authVars>>

\* The response message arrives: responseDeserialize starts on its bytes.
DeliverResponse(r) ==
    /\ running = 0
    /\ reqs[r].pc = "dispatched"
    /\ \E buf \in ResponseBuffers :
         /\ buffer' = buf
         /\ offset' = 0
         /\ result' = EmptyResult
         /\ pc' = "loop"
         /\ last' = NoField
         /\ tick' = 0
    /\ reqs' = [reqs EXCEPT ![r].pc = "deserializing"]
    /\ running' = r
    /\ UNCHANGED <<service, authVars>>

\* A callback that closes the client on the success path only.
CallbackCloseOnSuccess(r) ==
    /\ running = r
    /\ \/ reqs[r].pc = "callback"
       \/ reqs[r].pc = "deserializing" /\ pc = "returned"
    /\ reqs' = [reqs EXCEPT ![r].pc = "closed",
                            ![r].closes = IF reqs[r].pc = "callback" THEN @ ELSE @ + 1,
                            ![r].response =
                                IF reqs[r].pc = "deserializing" THEN result ELSE @]
    /\ UNCHANGED <<decoderVars, service, authVars, running>>

\* The callback of Check, first statement: client.close()
CallbackClose(r) ==
    /\ running = r
    /\ \/ reqs[r].pc = "callback"
       \/ reqs[r].pc = "deserializing" /\ pc = "returned"
    /\ reqs' = [reqs EXCEPT ![r].pc = "closed",
                            ![r].closes = @ + 1,
                            ![r].response =
                                IF reqs[r].pc = "deserializing" THEN result ELSE @]
    /\ UNCHANGED <<decoderVars, service, authVars, running>>

\* The callback of Check, the rest: reject(err), or resolve with the status
\* taken from the response.
CallbackSettle(r) ==
    /\ running = r
    /\ reqs[r].pc = "closed"
    /\ reqs' = [reqs EXCEPT ![r] =
          IF @.err.kind # "none"
          THEN [@ EXCEPT !.pc = "rejected", !.rejects = @ + 1]
          ELSE [@ EXCEPT !.pc = "resolved", !.resolves = @ + 1,
                         !.rawStatus = reqs[r].response.status,
                         !.status = StatusToString(reqs[r].response.status),
                         !.serving = IsServing(reqs[r].response.status)]]
    /\ running' = 0
    /\ buffer' = <<>>
    /\ offset' = 0
    /\ result' = EmptyResult
    /\ pc' = "idle"
    /\ last' = NoField
    /\ tick' = 0
    /\ UNCHANGED <<service, authVars>>

\* After the await: the HTTP response.
Respond(r) ==
    /\ running = 0
    /\ reqs[r].pc \in {"resolved", "rejected"}
    /\ reqs' = [reqs EXCEPT ![r] =
          IF @.pc = "resolved"
          THEN [@ EXCEPT !.pc = "done", !.http = ResultStatus(reqs[r].serving)]
          ELSE IF IsAuthErrorRaises(reqs[r].err)
          THEN [@ EXCEPT !.pc = "raised"]
          ELSE [@ EXCEPT !.pc = "failed", !.http = CatchStatus(reqs[r].err),
                         !.body = FailureBody(reqs[r].err, reqs[r].sentSet,
                                              reqs[r].sent)]]
    /\ UNCHANGED <<decoderVars, service, authVars, running>>

OrchInit ==
    /\ reqs = [r \in 1..MaxRequests |-> NewRequest]
    /\ running = 0
    /\ DecoderIdle
    /\ service = <<>>
    /\ AuthIdle

OrchNext ==
    \/ \E r \in 1..MaxRequests :
          \/ HandleRequest(r)
          \/ DeliverError(r)
          \/ DeliverResponse(r)
          \/ CallbackClose(r)
          \/ CallbackSettle(r)
          \/ Respond(r)
    \/ DecodeField
    \/ DecodeBreak
    \/ DecodeReturn

SpecOrch == OrchInit /\ [][OrchNext]_vars

\* The event loop runs whatever is ready: a dispatched call gets its outcome,
\* the running decoder takes its next step, a callback that was entered runs
\* to its end, and a settled request is answered.
FairOrch ==
    /\ OrchInit
    /\ [][OrchNext]_vars
    /\ WF_vars(DecodeField \/ DecodeBreak \/ DecodeReturn)
    /\ \A r \in 1..MaxRequests :
          /\ WF_vars(DeliverError(r) \/ DeliverResponse(r))
          /\ WF_vars(CallbackClose(r))
          /\ WF_vars(CallbackSettle(r))
          /\ WF_vars(Respond(r))

(***************************************************************************)
(* The handler with the deserializer of either source file.  In            *)
(* src/index.ts the response message is decoded by the proto-loader        *)
(* definition (enums: String, defaults: true): the callback receives the   *)
(* name of a known status, or the number of an unknown one.  The callback, *)
(* statusToString, isServing and the answer to a successful call are the   *)
(* same in both files.                                                     *)
(***************************************************************************)
LoaderStatuses ==
    { StringVal(<<85, 78, 75, 78, 79, 87, 78>>),
      StringVal(<<83, 69, 82, 86, 73, 78, 71>>),
      StringVal(<<78, 79, 84, 95, 83, 69, 82, 86, 73, 78, 71>>),
      StringVal(<<83, 69, 82, 86, 73, 67, 69, 95, 85, 78, 75, 78, 79, 87, 78>>),
      NumberVal(4) }

\* The call succeeds with a message decoded by the library: the callback is
\* entered with err = null and response.status set.
DeliverDecoded(r) ==
    /\ running = 0
    /\ reqs[r].pc = "dispatched"
    /\ \E st \in LoaderStatuses :
         reqs' = [reqs EXCEPT ![r].pc = "callback",
                              ![r].response = [EmptyResult EXCEPT !.status = st]]
    /\ running' = r
    /\ UNCHANGED <<decoderVars, service, authVars>>

ClassifyNext ==
    \/ OrchNext
    \/ \E r \in 1..MaxRequests : DeliverDecoded(r)

SpecClassify == OrchInit /\ [][ClassifyNext]_vars

(***************************************************************************)
(* Properties of the response decoder and of the request encoder.          *)
(***************************************************************************)

\* The reference base-128 varint encoding of n >= 0.
RECURSIVE RefVarint(_)
RefVarint(n) ==
    IF n < 128 THEN <<n>> ELSE <<128 + (n % 128)>> \o RefVarint(n \div 128)

\* The bytes of the varint that the latest iteration read after its tag.
VarintBytes(l) == SubSeq(buffer, l.at + 2, l.p)

\* The bit positions of the unsigned base-128 little-endian value of bs.
RefVarintBits(bs) ==
    UNION {{7 * (k - 1) + j : j \in {i \in 0..6 : (bs[k] \div (2^i)) % 2 = 1}} :
           k \in 1..Len(bs)}

\* The bit positions of a number n >= 0.
NatBits(n) == {i \in 0..30 : (n \div (2^i)) % 2 = 1}

\* The latest iteration met the end of the buffer inside its field: in the
\* varint (also when nothing follows the tag) or in the payload.
Truncated(l) ==
    /\ l.kind \in {"varint", "bytes"}
    /\ \/ ~l.complete
       \/ l.kind = "bytes" /\ l.L > Len(buffer) - l.p

\* C1: parseProtobufResponse terminates on every buffer: the loop is left
\* and the result returned.
C1_DecodeTerminates == <>(pc = "returned")

\* C2: the request encoder returns the empty buffer for the empty service
\* and otherwise 0x0a, the varint of the UTF-8 byte length, and the UTF-8
\* bytes of the service.
C2_RequestIsTagVarintLengthBytes ==
    pc # "idle" =>
        buffer = IF service = <<>> THEN <<>>
                 ELSE <<10>> \o RefVarint(Len(Utf8Encode(service)))
                             \o Utf8Encode(service)

\* C3: decoding the encoder's output gives no error message, and field 1
\* alone, holding the service string (no field at all for the empty
\* service).
C3_RoundTrip ==
    pc = "returned" =>
        /\ result.error_message = Undefined
        /\ service = <<>> => DOMAIN result.fields = {}
        /\ service # <<>> =>
              /\ DOMAIN result.fields = {1}
              /\ result.fields[1] = StringVal(service)

\* C4: an iteration that meets the end of the buffer inside its field
\* leaves the result as it was: no entry added or overwritten, and status,
\* latency, error code and error message unchanged.
C4_TruncatedFieldChangesNothing ==
    [][(pc = "loop" /\ pc' = "loop" /\ last' # last /\ Truncated(last'))
          => result' = result]_vars

\* C5: the cursor never leaves 0..len(buf) towards the front, every index
\* read is an index of the buffer, and a length-delimited field of declared
\* length L read at p records the bytes p .. min(p + L, len) - 1 and moves
\* the cursor forward by L.
C5_CursorAndPayloadInBounds ==
    /\ offset >= 0
    /\ last.reads \subseteq 0 .. (Len(buffer) - 1)
    /\ last.kind = "bytes" =>
          /\ last.L >= 0
          /\ offset = last.p + last.L
          /\ last.data = SubSeq(buffer, last.p + 1,
                                IF last.L > Len(buffer) - last.p
                                THEN Len(buffer) ELSE last.p + last.L)

\* C6: a complete varint of 1 to 10 bytes whose value fits 64 bits decodes
\* to its unsigned base-128 little-endian value.
C6_VarintIsUnsignedValue ==
    (/\ last.kind \in {"varint", "bytes"}
     /\ last.complete
     /\ Len(VarintBytes(last)) \in 1..10
     /\ RefVarintBits(VarintBytes(last)) \subseteq 0..63)
    => /\ last.value >= 0
       /\ NatBits(last.value) = RefVarintBits(VarintBytes(last))

\* C7: a tag whose wire type is neither 0 nor 2 leaves the result as it
\* was, and nothing after it is decoded: the next step returns.
C7_UnknownWireTypeHalts ==
    [][/\ (/\ pc = "loop" /\ offset >= 0 /\ offset < Len(buffer)
           /\ buffer[offset + 1] % 8 \notin {0, 2}) => result' = result
       /\ last.kind = "unknown" =>
              (result' = result /\ last' = last /\ pc' = "returned")]_vars

\* An unsupported tag was met after a field had been recorded and with
\* bytes left behind it, and the decoder has returned.
C7_Witness ==
    /\ pc = "returned"
    /\ last.kind = "unknown"
    /\ DOMAIN result.fields # {}
    /\ last.at + 1 < Len(buffer)

(***************************************************************************)
(* Properties of the metadata transform.                                   *)
(***************************************************************************)
IsControlKey(key) == ToLowerCase(key) \in {ClientKeyName, AuthorizationName}

\* The entries of es that are neither client-key nor authorization, in order.
RECURSIVE OtherEntries(_)
OtherEntries(es) ==
    IF es = <<>> THEN <<>>
    ELSE IF IsControlKey(Head(es).key) THEN OtherEntries(Tail(es))
    ELSE <<Head(es)>> \o OtherEntries(Tail(es))

HasClientKey(es) == \E i \in 1..Len(es) : ToLowerCase(es[i].key) = ClientKeyName

\* C8: with a client-key entry present the transform returns the other
\* entries, unchanged and in order, followed by the single entry
\* Authorization: "TOTP " + HMAC-SHA256(secret, window), secret the string
\* form of the first client-key value and window the current second
\* rounded down to a multiple of 30.
C8_ClientKeyBecomesTotp ==
    (authDone /\ HasClientKey(entries)) =>
        LET first == CHOOSE i \in 1..Len(entries) :
                        /\ ToLowerCase(entries[i].key) = ClientKeyName
                        /\ \A j \in 1..(i - 1) :
                              ToLowerCase(entries[j].key) # ClientKeyName
            secret == ToJsString(entries[first].value)
            window == 30 * ((now \div 1000) \div 30)
            n == Len(sent)
        IN  /\ n >= 1
            /\ sent[n] = [key |-> AuthorizationHeader,
                          value |-> StringVal(TotpPrefix \o
                              HmacSha256Hex(secret, NumberToString(window)))]
            /\ \A i \in 1..(n - 1) : ~IsControlKey(sent[i].key)
            /\ SubSeq(sent, 1, n - 1) = OtherEntries(entries)

\* The transform has run on a list with two client-key entries of different
\* values, an earlier credential and another entry, inside a 30 s window.
C8_Witness ==
    /\ authDone
    /\ Cardinality({i \in 1..Len(entries) :
                       ToLowerCase(entries[i].key) = ClientKeyName}) >= 2
    /\ \E i \in 1..Len(entries) : ToLowerCase(entries[i].key) = AuthorizationName
    /\ (now \div 1000) % 30 # 0
    /\ Len(sent) = 1

(***************************************************************************)
(* Properties of the handler.                                              *)
(***************************************************************************)
\* The target as the payload gives it, host standing in for a target that is
\* absent; a payload that is null gives none.
GivenTarget(input) ==
    IF input.isNull THEN Undefined
    ELSE IF input.target.t \in {"undefined", "null"} THEN input.host
    ELSE input.target

InvalidTarget(input) ==
    LET t == GivenTarget(input) IN t.t # "string" \/ t.s = <<>>

Handled(r) == reqs[r].pc # "start"

\* C9: a request whose target (host standing in for it) is missing, empty or
\* not a string ends in a failure response, and no client is created, Check is
\* not called and close is not called for it.
C9_InvalidTargetFailsWithoutCall ==
    \A r \in 1..MaxRequests :
        (Handled(r) /\ InvalidTarget(reqs[r].payload)) =>
            /\ reqs[r].pc = "failed"
            /\ reqs[r].http \in {401, 502}
            /\ reqs[r].clients = 0
            /\ reqs[r].checks = 0
            /\ reqs[r].closes = 0
            /\ reqs[r].resolves = 0

\* An empty target next to a usable host has been refused while another
\* request went through its call.
C9_Witness ==
    \E r, q \in 1..MaxRequests :
        /\ reqs[r].pc = "failed"
        /\ reqs[r].payload.target = StringVal(<<>>)
        /\ reqs[r].payload.host = HostPort
        /\ reqs[r].clients = 0
        /\ reqs[q].pc = "done"
        /\ reqs[q].closes = 1

\* What a request with a valid target has done at each position: one client,
\* one Check, no close and no result before the outcome of the call, one close
\* from the callback on, and one of resolve and reject after it.
C10_Discipline ==
    \A r \in 1..MaxRequests :
        (Handled(r) /\ ~InvalidTarget(reqs[r].payload)) =>
            /\ reqs[r].clients = 1
            /\ reqs[r].checks = 1
            /\ reqs[r].pc \in {"dispatched", "deserializing", "callback"} =>
                  reqs[r].closes = 0 /\ reqs[r].resolves + reqs[r].rejects = 0
            /\ reqs[r].pc = "closed" =>
                  reqs[r].closes = 1 /\ reqs[r].resolves + reqs[r].rejects = 0
            /\ reqs[r].pc \in {"resolved", "done"} =>
                  reqs[r].closes = 1 /\ reqs[r].resolves = 1 /\ reqs[r].rejects = 0
            /\ reqs[r].pc \in {"rejected", "failed"} =>
                  reqs[r].closes = 1 /\ reqs[r].resolves = 0 /\ reqs[r].rejects = 1

\* C10: a request with a valid target opens one channel and calls Check once;
\* whichever outcome the transport delivers, response or error, the channel is
\* closed once, after the outcome and before the result, and the request ends
\* once, as a result or as a failure.
C10_OneCallOneCloseOneResult ==
    /\ []C10_Discipline
    /\ \A r \in 1..MaxRequests :
          [](reqs[r].pc \in {"deserializing", "callback"} =>
                <>(reqs[r].pc \in {"done", "failed"} /\ reqs[r].closes = 1))

\* The status kind the rule gives for a decoded status.
StatusKind(raw) ==
    IF raw \in {NumberVal(1), StringVal(<<83, 69, 82, 86, 73, 78, 71>>)}
    THEN "SERVING"
    ELSE IF raw \in {NumberVal(2),
                     StringVal(<<78, 79, 84, 95, 83, 69, 82, 86, 73, 78, 71>>)}
    THEN "NOT_SERVING"
    ELSE IF raw \in {NumberVal(3),
                     StringVal(<<83, 69, 82, 86, 73, 67, 69, 95, 85, 78, 75, 78,
                                 79, 87, 78>>)}
    THEN "SERVICE_UNKNOWN"
    ELSE "UNKNOWN"

\* C11: the reported status of a decoded response is SERVING for a decoded
\* status 1 or "SERVING", NOT_SERVING for 2 or "NOT_SERVING", SERVICE_UNKNOWN
\* for 3 or "SERVICE_UNKNOWN" and UNKNOWN for anything else, an absent status
\* included; serving is true exactly when the reported status is SERVING; a
\* successful call is answered 200 when serving and 503 otherwise; and the
\* buffer [0x08, 0x01] decodes to status 1.
C11_StatusClassification ==
    /\ \A r \in 1..MaxRequests :
          /\ reqs[r].pc \in {"resolved", "done"} =>
                /\ reqs[r].rawStatus = reqs[r].response.status
                /\ reqs[r].status = StatusKind(reqs[r].response.status)
                /\ reqs[r].serving <=> (reqs[r].status = "SERVING")
          /\ reqs[r].pc = "done" =>
                reqs[r].http = (IF reqs[r].serving THEN 200 ELSE 503)
    /\ (pc = "returned" /\ buffer = <<8, 1>>) =>
          /\ result.status = NumberVal(1)
          /\ StatusKind(result.status) = "SERVING"

\* One request was answered 200 for the status name "SERVING", another 503 for
\* a response without status.
C11_Witness ==
    \E r, q \in 1..MaxRequests :
        /\ reqs[r].pc = "done"
        /\ reqs[r].rawStatus = StringVal(<<83, 69, 82, 86, 73, 78, 71>>)
        /\ reqs[r].status = "SERVING"
        /\ reqs[r].http = 200
        /\ reqs[q].pc = "done"
        /\ reqs[q].rawStatus = Undefined
        /\ reqs[q].status = "UNKNOWN"
        /\ reqs[q].http = 503

\* The text d contains the text t.
ContainsText(d, t) ==
    \E i \in 0..(Len(d) - Len(t)) : \A k \in 1..Len(t) : d[i + k] = t[k]

\* The failures the rule takes for an auth rejection.
AuthRejection(err) ==
    \/ err.code = NumberVal(16)
    \/ err.code = NumberVal(7)
    \/ /\ err.code = NumberVal(13)
       /\ err.details.t = "string"
       /\ ContainsText(err.details.s, ParsingErrorText)

====
